---- MODULE Spec2Model ----
(***************************************************************************)
(* A model of src/app.py: the catalog (the SQLite table "files"), the      *)
(* files on disk, and the four endpoints that change either of them:       *)
(* process_files, save_all_changes, clear_directory_cache and              *)
(* clear_database.  Strings are sequences of one-character strings, so     *)
(* that the path functions, sanitize_filename and SQLite's LIKE are        *)
(* computed character by character as the code computes them.              *)
(***************************************************************************)
EXTENDS Integers, Sequences, FiniteSets, TLC

VARIABLES
  fs,        \* the files on disk: path -> [data, readable]
  db,        \* the rows of table "files", in insertion order
  namesTxt,  \* directory -> state of its names.txt sidecar
  op,        \* the endpoint that ran last
  request,   \* its input
  response,  \* its HTTP status and JSON body
  log,       \* what the handler did for each file / item, in order
  served,    \* the rename requests served, where a specification bounds them
  platform   \* sys.platform of the host the program runs on

vars == <<fs, db, namesTxt, op, request, response, log, served, platform>>

(***************************************************************************)
(* Bounds of the model.                                                    *)
(***************************************************************************)
\* the longest basename a rename may create (caps the DELETE_ prefix chain)
MaxNameLen == 12
\* the number of files of one scan whose environment misbehaves
MaxFaults == 1
\* the number of items in one save_all_changes request
MaxBatch == 2
\* the number of save_all_changes requests of a behaviour of SpecRename
MaxRenameRequests == 1

(***************************************************************************)
(* Strings.                                                                *)
(***************************************************************************)
NULL == <<"NULL">>          \* SQL NULL / Python None where a string may stand

Upper == <<"A","B","C","D","E","F","G","H","I","J","K","L","M",
           "N","O","P","Q","R","S","T","U","V","W","X","Y","Z">>
LowerOf == <<"a","b","c","d","e","f","g","h","i","j","k","l","m",
             "n","o","p","q","r","s","t","u","v","w","x","y","z">>

\* str.lower() on one character (ASCII)
LowerChar(c) ==
  IF \E i \in 1..26 : Upper[i] = c
    THEN LowerOf[CHOOSE i \in 1..26 : Upper[i] = c]
    ELSE c

Lower(s) == [i \in 1..Len(s) |-> LowerChar(s[i])]

\* s[:n]
Take(s, n) == SubSeq(s, 1, IF Len(s) < n THEN Len(s) ELSE n)

\* s.rfind(c) + 1 : the 1-based index of the last c in s, or 0
RFind(s, c) ==
  IF \E i \in 1..Len(s) : s[i] = c
    THEN CHOOSE i \in 1..Len(s) : s[i] = c /\ \A j \in (i+1)..Len(s) : s[j] # c
    ELSE 0

StartsWith(s, p) == Len(p) <= Len(s) /\ SubSeq(s, 1, Len(p)) = p

RECURSIVE RStripSep(_)
RStripSep(s) ==
  IF s # <<>> /\ s[Len(s)] = "/" THEN RStripSep(SubSeq(s, 1, Len(s) - 1)) ELSE s

RECURSIVE JoinWith(_, _)
\* sep.join(parts)
JoinWith(sep, parts) ==
  IF parts = <<>> THEN <<>>
  ELSE IF Len(parts) = 1 THEN parts[1]
  ELSE parts[1] \o sep \o JoinWith(sep, Tail(parts))

(***************************************************************************)
(* os.path (posixpath).                                                    *)
(***************************************************************************)
basename(p) == SubSeq(p, RFind(p, "/") + 1, Len(p))

dirname(p) ==
  LET head == SubSeq(p, 1, RFind(p, "/"))
  IN  IF head # <<>> /\ \E i \in 1..Len(head) : head[i] # "/"
        THEN RStripSep(head)
        ELSE head

join(a, b) ==
  IF b # <<>> /\ b[1] = "/" THEN b
  ELSE IF a = <<>> \/ a[Len(a)] = "/" THEN a \o b
  ELSE a \o <<"/">> \o b

\* os.path.splitext(p)[1]: from the last dot of the basename, unless only
\* dots precede it
splitext(p) ==
  LET sepIndex == RFind(p, "/")
      dotIndex == RFind(p, ".")
  IN  IF dotIndex > sepIndex
         /\ \E i \in (sepIndex + 1)..(dotIndex - 1) : p[i] # "."
        THEN SubSeq(p, dotIndex, Len(p))
        ELSE <<>>

(***************************************************************************)
(* Configuration (src/app.py:21-23).                                       *)
(***************************************************************************)
ExtTxt == <<".","t","x","t">>

SUPPORTED_EXTENSIONS ==
  { <<".","p","d","f">>, ExtTxt, <<".","d","o","c","x">>, <<".","j","p","g">>,
    <<".","j","p","e","g">>, <<".","p","n","g">>, <<".","g","i","f">>,
    <<".","m","p","3">>, <<".","w","a","v">>, <<".","m","4","a">> }

(***************************************************************************)
(* The names of the model's world.                                         *)
(***************************************************************************)
DirLower == <<"/","a">>
DirUpper == <<"/","A">>
DirWild  == <<"/","_">>
DirGone  == <<"/","z">>      \* a directory that does not exist
Root     == <<"/">>

\* the directories that exist on disk (none is created or removed)
DirsOnDisk == {Root, DirLower, DirUpper, DirWild}

\* os.path.isdir
IsDir(path) == path \in DirsOnDisk

NameX == <<"x",".","t","x","t">>
NameY == <<"y",".","t","x","t">>
NameN == <<"n",".","t","x","t">>

(***************************************************************************)
(* File processing utilities.                                              *)
(***************************************************************************)
\* hashlib.sha256 of a file's bytes: a digest that differs when the bytes do
Sha256(data) == <<"sha256", data>>

\* calculate_file_hash: the digest, or None when the file cannot be read
calculate_file_hash(disk, file_path) ==
  IF file_path \in DOMAIN disk /\ disk[file_path].readable
    THEN Sha256(disk[file_path].data)
    ELSE <<"None">>

HashFailed(file_hash) == file_hash = <<"None">>

\* the kinds get_file_content has an extractor for
TextKinds == {<<".","p","d","f">>, ExtTxt, <<".","d","o","c","x">>}

\* get_file_content: "text", "None" (the extractor failed) or "" (no text kind)
get_file_content(file_path, extract) ==
  LET ext == Lower(splitext(file_path))
  IN  IF ext \in TextKinds
        THEN (IF extract = "ok" THEN "text" ELSE "None")
        ELSE ""

\* get_external_metadata: the tool's tags, or the sentinel {"Error": reason}
ToolNotFound ==
  [kind |-> "Error", text |-> "ExifTool not found. Please install it to extract rich metadata."]
ToolTags == [kind |-> "tags", text |-> "SourceFile"]
ToolFailed == [kind |-> "Error", text |-> "Could not extract metadata."]

\* a tool whose failure leaves the metadata absent
AbsentMetadata == [kind |-> "null", text |-> "-"]

get_external_metadata_Null(exif) == IF exif = "ok" THEN ToolTags ELSE AbsentMetadata

get_external_metadata(exif) ==
  IF exif = "not_installed" THEN ToolNotFound
  ELSE IF exif = "ok" THEN ToolTags
  ELSE ToolFailed

(***************************************************************************)
(* The classifier.  What the endpoint answers is an input of the scan; a   *)
(* JSON value is [t, m]: its type and, for an object or an array, its map. *)
(***************************************************************************)
Str(s) == [t |-> "str", s |-> s]
Num(s) == [t |-> "num", s |-> s]
StrList(l) == [t |-> "list", s |-> l]

PyNone == [t |-> "None", m |-> <<>>]

TopicText == <<"T"," ","x">>
SynopsisText == <<"s","y","n">>
SpeakerList == << <<"A","l">> >>
NA == <<"N","/","A">>

FullReply ==
  [t |-> "dict",
   m |-> [topic |-> Str(TopicText), synopsis |-> Str(SynopsisText),
          speakers |-> StrList(SpeakerList), date |-> Str(NA),
          setting |-> Str(NA), subject |-> Str(NA)]]

\* the answers of the classification endpoint the model draws from
ReplyKinds ==
  {"ok", "network_error", "timeout", "http_error", "non_json",
   "missing_key", "empty_object", "array", "bad_topic"}

\* the answers for which requests.post, raise_for_status, response.json or
\* json.loads raises
ReplyRaises == {"network_error", "timeout", "http_error", "non_json"}

\* contents that parse as JSON and are not the object the prompt asks for:
\* an object without synopsis, speakers, setting and subject; the object {};
\* an array; an object whose topic is the number 7
MissingKeyReply == [t |-> "dict", m |-> [topic |-> Str(TopicText), date |-> Str(NA)]]
EmptyObjectReply == [t |-> "dict", m |-> <<>>]
ArrayReply == [t |-> "list", m |-> <<Str(TopicText)>>]
BadTopicReply == [t |-> "dict", m |-> [FullReply.m EXCEPT !.topic = Num(<<"7">>)]]

\* texts of the date, setting and subject of an answer
DateText == <<"D"," ","1">>
SettingText == <<"S",":","b">>
SubjectText == <<"A"," ","R">>
\* the characters sanitize_filename keeps (line 175)
NameLimit == 100

\* a text one character longer than sanitize_filename keeps
LongText == [i \in 1..(NameLimit + 1) |-> "a"]

\* the object the prompt asks for, with the given topic, date, setting and subject
ReplyWith(topic, date, setting, subject) ==
  [t |-> "dict",
   m |-> [FullReply.m EXCEPT !.topic = topic, !.date = date, !.setting = setting,
                             !.subject = subject]]

\* answers that differ in the parts the proposed name is made of
TwoPartsReply == ReplyWith(Str(TopicText), Str(DateText), Str(NA), Str(SubjectText))
ThreePartsReply == ReplyWith(Str(TopicText), Str(DateText), Str(SettingText), Str(SubjectText))
OnePartReply == ReplyWith(Str(TopicText), Str(NA), Str(NA), Str(SubjectText))
EmptyPartReply == ReplyWith(Str(TopicText), Str(<<>>), Str(SettingText), Str(NA))
LongTopicReply == ReplyWith(Str(LongText), Str(NA), Str(NA), Str(NA))
LongPartsReply == ReplyWith(Str(TopicText), Str(LongText), Str(LongText), Str(LongText))
BadDateReply == ReplyWith(Str(TopicText), Num(<<"7">>), Str(SettingText), Str(NA))

NameReplyKinds ==
  {"two_parts", "three_parts", "one_part", "empty_part", "long_topic", "long_parts",
   "bad_date"}

\* get_llm_analysis, lines 163-171: the parsed content, or None on any exception
get_llm_analysis(reply) ==
  CASE reply \in ReplyRaises -> PyNone
    [] reply = "ok" -> FullReply
    [] reply = "missing_key" -> MissingKeyReply
    [] reply = "empty_object" -> EmptyObjectReply
    [] reply = "array" -> ArrayReply
    [] reply = "bad_topic" -> BadTopicReply
    [] reply = "two_parts" -> TwoPartsReply
    [] reply = "three_parts" -> ThreePartsReply
    [] reply = "one_part" -> OnePartReply
    [] reply = "empty_part" -> EmptyPartReply
    [] reply = "long_topic" -> LongTopicReply
    [] reply = "long_parts" -> LongPartsReply
    [] reply = "bad_date" -> BadDateReply

\* Python truth of what get_llm_analysis returned
Truthy(j) == j.t # "None" /\ DOMAIN j.m # {}

\* dict.get(key, default)
Get(j, key, default) == IF key \in DOMAIN j.m THEN j.m[key] ELSE default

(***************************************************************************)
(* sanitize_filename.                                                      *)
(***************************************************************************)
IllegalChars == {"\\", "/", ":", "*", "?", "\"", "<", ">", "|"}
Whitespace == {" ", "\t", "\n", "\r"}

\* re.sub(r'[\\/:*?"<>|]', '_', name)
ReplaceIllegal(s) == [i \in 1..Len(s) |-> IF s[i] \in IllegalChars THEN "_" ELSE s[i]]

\* re.sub(r'\s+', '-', s): a run of whitespace keeps its first character,
\* which becomes a hyphen
CollapseWhitespace(s) ==
  LET kept == SelectSeq([i \in 1..Len(s) |-> i],
                        LAMBDA i : ~(s[i] \in Whitespace /\ i > 1 /\ s[i - 1] \in Whitespace))
  IN  [k \in 1..Len(kept) |-> IF s[kept[k]] \in Whitespace THEN "-" ELSE s[kept[k]]]

RECURSIVE LStrip(_)
LStrip(s) == IF s # <<>> /\ s[1] \in Whitespace THEN LStrip(Tail(s)) ELSE s

RECURSIVE RStrip(_)
RStrip(s) ==
  IF s # <<>> /\ s[Len(s)] \in Whitespace THEN RStrip(SubSeq(s, 1, Len(s) - 1)) ELSE s

\* str.strip()
Strip(s) == RStrip(LStrip(s))

sanitize_filename(name) ==
  Take(Lower(Strip(CollapseWhitespace(ReplaceIllegal(name)))), NameLimit)

(***************************************************************************)
(* The catalog: table "files" (init_db).  A row's id and created_at are    *)
(* left out: no handler reads them.                                        *)
(***************************************************************************)
\* SELECT id FROM files WHERE file_hash = ?  ... fetchone()
HashKnown(rows, file_hash) == \E i \in 1..Len(rows) : rows[i].file_hash = file_hash

\* INSERT INTO files (...): the column file_hash is UNIQUE NOT NULL, and an
\* insert of a hash already present raises sqlite3.IntegrityError
Insert(rows, row) ==
  IF HashKnown(rows, row.file_hash)
    THEN [ok |-> FALSE, rows |-> rows]
    ELSE [ok |-> TRUE, rows |-> Append(rows, row)]

\* json.dumps(value): the serialised text of a value
JsonDumps(value) == [json |-> value]

(***************************************************************************)
(* process_files.                                                          *)
(***************************************************************************)
\* the character sequences that are files below directory_path (os.walk
\* descends into every subdirectory)
FilesBelow(disk, directory_path) ==
  {p \in DOMAIN disk : StartsWith(p, RStripSep(directory_path) \o <<"/">>)}

\* files_to_scan as a set: the walked files with a supported extension
files_to_scan(disk, directory_path) ==
  {p \in FilesBelow(disk, directory_path) :
     Lower(splitext(basename(p))) \in SUPPORTED_EXTENSIONS}

\* os.walk lists a directory's files in the order the file system returns
\* them, which is any order; a directory's files are listed together and
\* before those of the directories below it
WalkOrders(disk, directory_path) ==
  LET S == files_to_scan(disk, directory_path)
      n == Cardinality(S)
  IN  {s \in [1..n -> S] :
         /\ \A i, j \in 1..n : i # j => s[i] # s[j]
         /\ \A i, j \in 1..n :
              i < j => ~StartsWith(dirname(s[i]), dirname(s[j]) \o <<"/">>)
         /\ \A i, j, k \in 1..n :
              (i < k /\ k < j /\ dirname(s[i]) = dirname(s[j]))
                => dirname(s[k]) = dirname(s[i])}

\* what the environment does for one file of a scan: the classifier's
\* answer, whether exiftool is found and succeeds on it ("ok", "not_installed",
\* "fails"), whether its text extracts
Nominal == [reply |-> "ok", exif |-> "ok", extract |-> "ok"]

FileEnvs ==
  {[Nominal EXCEPT !.reply = r] : r \in ReplyKinds}
    \cup {[Nominal EXCEPT !.exif = "not_installed"], [Nominal EXCEPT !.exif = "fails"],
          [Nominal EXCEPT !.extract = "fails"]}

NoMetadata == [kind |-> "-", text |-> "-"]

LogEntry(file_path, outcome, reply, text, exif, metadata) ==
  [path |-> file_path, outcome |-> outcome, reply |-> reply, text |-> text,
   exif |-> exif, metadata |-> metadata]

\* line 235: the parts among date, setting, subject that are truthy and not "N/A"
name_parts(llm_analysis) ==
  LET parts == <<Get(llm_analysis, "date", PyNone), Get(llm_analysis, "setting", PyNone),
                 Get(llm_analysis, "subject", PyNone)>>
  IN  SelectSeq(parts, LAMBDA p : p.t # "None" /\ p.s # <<>> /\ p.s # NA)

\* lines 233-236: the name is made of the parts
Structured(llm_analysis, file_ext) == file_ext = ExtTxt /\ Len(name_parts(llm_analysis)) > 1

\* sanitize_filename raises TypeError on a value that is no string
NameRaises(llm_analysis, topic, file_ext) ==
  \/ topic.t # "str"
  \/ /\ Structured(llm_analysis, file_ext)
     /\ \E i \in 1..Len(name_parts(llm_analysis)) : name_parts(llm_analysis)[i].t # "str"

\* lines 232-237: the proposed name
proposed_name(llm_analysis, topic, file_ext) ==
  LET parts == name_parts(llm_analysis)
  IN  IF Structured(llm_analysis, file_ext)
        THEN JoinWith(<<"-">>, [i \in 1..Len(parts) |-> sanitize_filename(parts[i].s)])
               \o file_ext
        ELSE sanitize_filename(topic.s) \o file_ext

\* the defaults of lines 221-223
DefaultTopic == Str(<<"u","n","k","n","o","w","n","-","t","o","p","i","c">>)
DefaultSynopsis ==
  Str(<<"N","o"," ","s","y","n","o","p","s","i","s"," ",
        "a","v","a","i","l","a","b","l","e",".">>)
DefaultSpeakers == StrList(<<>>)

\* lines 221-247, for a file whose classification is a non-empty dict
Classified(st, disk, file_path, file_hash, llm_analysis, metadata, entry) ==
  LET file_ext == splitext(file_path)
      filename == basename(file_path)
      topic == Get(llm_analysis, "topic", DefaultTopic)
      synopsis == Get(llm_analysis, "synopsis", DefaultSynopsis)
      speakers == Get(llm_analysis, "speakers", DefaultSpeakers)
      ins == Insert(st.db,
               [file_hash |-> file_hash, original_name |-> filename,
                original_path |-> file_path, new_name |-> NULL, file_path |-> NULL,
                topic |-> topic, summary |-> synopsis, speakers |-> JsonDumps(speakers),
                file_type |-> file_ext, metadata |-> JsonDumps(metadata)])
  IN  IF ~ins.ok
        THEN [st EXCEPT !.crashed = TRUE,
                        !.log = Append(@, [entry EXCEPT !.outcome = "integrity_error"])]
      ELSE IF NameRaises(llm_analysis, topic, file_ext)
        \* the row is committed; sanitize_filename raises TypeError
        THEN [st EXCEPT !.db = ins.rows, !.crashed = TRUE,
                        !.log = Append(@, [entry EXCEPT !.outcome = "name_error"])]
      ELSE [st EXCEPT
              !.db = ins.rows,
              !.out = Append(@, [originalName |-> filename, originalPath |-> file_path,
                                 llmTopic |-> topic, synopsis |-> synopsis,
                                 speakers |-> speakers,
                                 proposedName |-> proposed_name(llm_analysis, topic, file_ext),
                                 fileType |-> file_ext]),
              !.log = Append(@, [entry EXCEPT !.outcome = "proposed"])]

\* a scan that leaves the dedup check out
DedupHit_Never(rows, file_hash) == FALSE

\* the dedup check of lines 210-211
DedupHit(rows, file_hash) == HashKnown(rows, file_hash)

\* one turn of the loop of lines 201-247; st = [db, out, log, crashed]
ScanFile(st, disk, names, directory_path, file_path, fenv) ==
  LET file_hash == calculate_file_hash(disk, file_path)
      text_content == get_file_content(file_path, fenv.extract)
      metadata == get_external_metadata(fenv.exif)
      llm_analysis == get_llm_analysis(fenv.reply)
      skip(outcome) ==
        [st EXCEPT !.log = Append(@, LogEntry(file_path, outcome, "-", "-", "-", NoMetadata))]
      entry == LogEntry(file_path, "-", fenv.reply, text_content, fenv.exif, metadata)
  IN  IF st.crashed THEN st
      ELSE IF file_path \notin DOMAIN disk THEN skip("not_a_file")
      ELSE IF HashFailed(file_hash) THEN skip("hash_failed")
      ELSE IF DedupHit(st.db, file_hash) THEN skip("known")
      \* get_llm_analysis opens names.txt outside its try block
      ELSE IF names[directory_path] = "unreadable"
        THEN [st EXCEPT !.crashed = TRUE,
                        !.log = Append(@, LogEntry(file_path, "names_error", "-",
                                                   text_content, fenv.exif, metadata))]
      ELSE IF ~Truthy(llm_analysis)
        THEN [st EXCEPT !.log = Append(@, [entry EXCEPT !.outcome = "llm_failed"])]
      \* llm_analysis.get on a value that is no dict raises AttributeError
      ELSE IF llm_analysis.t # "dict"
        THEN [st EXCEPT !.crashed = TRUE,
                        !.log = Append(@, [entry EXCEPT !.outcome = "not_a_dict"])]
      ELSE Classified(st, disk, file_path, file_hash, llm_analysis, metadata, entry)

RECURSIVE ScanLoop(_, _, _, _, _, _)
ScanLoop(st, disk, names, directory_path, order, env) ==
  IF order = <<>> THEN st
  ELSE ScanLoop(ScanFile(st, disk, names, directory_path, Head(order), env[Head(order)]),
                disk, names, directory_path, Tail(order), env)

\* the answers of process_files that carry no proposal: the directory is
\* missing (404), nothing to propose (200), an exception left the handler (500)
NotFound == [status |-> 404, body |-> <<>>]
NoProposals == [status |-> 200, body |-> <<>>]
ServerError == [status |-> 500, body |-> <<>>]

\* POST /process_files
ProcessFiles(directory_path, order, env) ==
  LET st == ScanLoop([db |-> db, out |-> <<>>, log |-> <<>>, crashed |-> FALSE],
                     fs, namesTxt, directory_path, order, env)
  IN  /\ op' = "process_files"
      /\ request' = [directory_path |-> directory_path]
      /\ UNCHANGED <<fs, namesTxt, platform>>
      /\ IF directory_path = <<>> \/ ~IsDir(directory_path)
           THEN /\ response' = NotFound
                /\ log' = <<>>
                /\ db' = db
           ELSE IF order = <<>>
             THEN /\ response' = NoProposals
                  /\ log' = <<>>
                  /\ db' = db
           ELSE /\ db' = st.db
                /\ log' = st.log
                /\ response' = IF st.crashed THEN ServerError
                                             ELSE [status |-> 200, body |-> st.out]

(***************************************************************************)
(* save_all_changes.                                                       *)
(***************************************************************************)
DeletePrefix == <<"D","E","L","E","T","E","_">>

\* os.path.exists, for the paths the items name (files)
exists(disk, path) == path \in DOMAIN disk

\* os.rename(src, dst): the file takes the new path.  It raises OSError when
\* the directory of dst does not exist or dst is a directory.  When dst is
\* another file, POSIX replaces that file silently and Windows raises
\* FileExistsError.
os_rename(disk, src, dst) ==
  IF src \notin DOMAIN disk \/ ~IsDir(dirname(dst)) \/ IsDir(dst) \/ basename(dst) = <<>>
    THEN [ok |-> FALSE, disk |-> disk]
  ELSE IF platform = "win32" /\ dst \in DOMAIN disk /\ dst # src
    THEN [ok |-> FALSE, disk |-> disk]
  ELSE IF src = dst THEN [ok |-> TRUE, disk |-> disk]
  ELSE [ok |-> TRUE,
        disk |-> [p \in (DOMAIN disk \ {src}) \cup {dst} |->
                    IF p = dst THEN disk[src] ELSE disk[p]]]

\* an update that sets the new name and leaves file_path as it was
UpdateAfterRename_NameOnly(rows, new_name, new_path, file_hash) ==
  [i \in 1..Len(rows) |->
     IF rows[i].file_hash = file_hash
       THEN [rows[i] EXCEPT !.new_name = new_name]
       ELSE rows[i]]

\* an update that also moves original_path to the new path
UpdateAfterRename_Repoints(rows, new_name, new_path, file_hash) ==
  [i \in 1..Len(rows) |->
     IF rows[i].file_hash = file_hash
       THEN [rows[i] EXCEPT !.new_name = new_name, !.file_path = new_path,
                            !.original_path = new_path]
       ELSE rows[i]]

\* UPDATE files SET new_name = ?, file_path = ? WHERE file_hash = ?
UpdateAfterRename(rows, new_name, new_path, file_hash) ==
  [i \in 1..Len(rows) |->
     IF rows[i].file_hash = file_hash
       THEN [rows[i] EXCEPT !.new_name = new_name, !.file_path = new_path]
       ELSE rows[i]]

\* the name an item is renamed to (lines 273-275)
target_name(item) ==
  IF item.status = "marked_for_deletion"
    THEN DeletePrefix \o basename(item.original_path)
    ELSE item.proposed_new_name

Failure(original_path, reason) == [original |-> basename(original_path), reason |-> reason]

\* what the log keeps of an item: the file it named as it was when the
\* item's turn came (NoFile when there was none) and what was done
NoFile == [data |-> 0, readable |-> FALSE]

ItemLog(item, outcome, new_path, disk) ==
  [item |-> item, outcome |-> outcome, new_path |-> new_path,
   existed |-> item.original_path \in DOMAIN disk,
   before |-> IF item.original_path \in DOMAIN disk THEN disk[item.original_path]
              ELSE NoFile]

\* one turn of the loop of lines 263-291; st = [disk, db, successful, failed, log]
RenameItem(st, item) ==
  LET original_path == item.original_path
      new_name == target_name(item)
      new_path == join(dirname(original_path), new_name)
      moved == os_rename(st.disk, original_path, new_path)
      file_hash == calculate_file_hash(moved.disk, new_path)
  IN  IF original_path = <<>> \/ item.proposed_new_name = <<>>
        THEN [st EXCEPT !.log = Append(@, ItemLog(item, "skipped", NULL, st.disk))]
      ELSE IF ~exists(st.disk, original_path)
        THEN [st EXCEPT
                !.failed = Append(@, Failure(original_path, "Original file not found.")),
                !.log = Append(@, ItemLog(item, "missing", NULL, st.disk))]
      ELSE IF ~moved.ok
        THEN [st EXCEPT
                !.failed = Append(@, Failure(original_path, "OSError")),
                !.log = Append(@, ItemLog(item, "error", new_path, st.disk))]
      ELSE [st EXCEPT
              !.disk = moved.disk,
              !.db = IF HashFailed(file_hash) THEN @
                     ELSE UpdateAfterRename(@, new_name, new_path, file_hash),
              !.successful = @ + 1,
              !.log = Append(@, ItemLog(item, "renamed", new_path, st.disk))]

\* a loop that gives up at the first item that fails
RECURSIVE RenameLoop_StopsAtFailure(_, _)
RenameLoop_StopsAtFailure(st, renames) ==
  IF renames = <<>> \/ st.failed # <<>> THEN st
  ELSE RenameLoop_StopsAtFailure(RenameItem(st, Head(renames)), Tail(renames))

RECURSIVE RenameLoop(_, _)
RenameLoop(st, renames) ==
  IF renames = <<>> THEN st
  ELSE RenameLoop(RenameItem(st, Head(renames)), Tail(renames))

\* POST /save_all_changes
SaveAllChanges(renames) ==
  LET st == RenameLoop([disk |-> fs, db |-> db, successful |-> 0, failed |-> <<>>,
                        log |-> <<>>], renames)
  IN  /\ \A p \in DOMAIN st.disk : Len(basename(p)) <= MaxNameLen
      /\ op' = "save_all_changes"
      /\ request' = [renames |-> renames]
      /\ fs' = st.disk
      /\ db' = st.db
      /\ log' = st.log
      /\ response' = [status |-> 200,
                      body |-> [successful_renames |-> st.successful,
                                failed_renames |-> st.failed]]
      /\ UNCHANGED <<namesTxt, platform>>

(***************************************************************************)
(* clear_directory_cache and clear_database.                               *)
(***************************************************************************)
RECURSIVE Like(_, _)
\* SQLite's  text LIKE pattern : % matches any run of characters, _ any one
\* character, and ASCII letters match without regard to case
Like(pattern, text) ==
  IF pattern = <<>> THEN text = <<>>
  ELSE IF pattern[1] = "%"
    THEN Like(Tail(pattern), text) \/ (text # <<>> /\ Like(pattern, Tail(text)))
  ELSE /\ text # <<>>
       /\ (pattern[1] = "_" \/ LowerChar(pattern[1]) = LowerChar(text[1]))
       /\ Like(Tail(pattern), Tail(text))

\* a pattern without the trailing wildcard
path_pattern_NoWildcard(directory_path) == join(directory_path, <<>>)

\* path_pattern, line 379
path_pattern(directory_path) == join(directory_path, <<>>) \o <<"%">>

\* DELETE FROM files WHERE original_path LIKE ?
DeleteLike(rows, pattern) == SelectSeq(rows, LAMBDA r : ~Like(pattern, r.original_path))

BadRequest == [status |-> 400, body |-> 0]

\* POST /clear_directory_cache
ClearDirectoryCache(directory_path) ==
  /\ op' = "clear_directory_cache"
  /\ request' = [directory_path |-> directory_path]
  /\ log' = <<>>
  /\ UNCHANGED <<fs, namesTxt, platform>>
  /\ IF directory_path = <<>> \/ ~IsDir(directory_path)
       THEN /\ db' = db
            /\ response' = BadRequest
       ELSE /\ db' = DeleteLike(db, path_pattern(directory_path))
            /\ response' = [status |-> 200, body |-> Len(db) - Len(db')]

DatabaseCleared == [status |-> 200, body |-> 0]

\* POST /clear_database
ClearDatabase ==
  /\ op' = "clear_database"
  /\ request' = <<>>
  /\ log' = <<>>
  /\ db' = <<>>
  /\ response' = DatabaseCleared
  /\ UNCHANGED <<fs, namesTxt, platform>>

(***************************************************************************)
(* The initial states and the inputs of the endpoints.                     *)
(***************************************************************************)
File(data, readable) == [data |-> data, readable |-> readable]

NameNew == <<"n","n",".","t","x","t">>
PathAX == join(DirLower, NameX)
PathAY == join(DirLower, NameY)
PathUX == join(DirUpper, NameX)
MissingPath == join(DirLower, <<"m",".","t","x","t">>)

\* a new name whose directory does not exist: os.rename raises
BadName == <<"q","/","n",".","t","x","t">>

SidecarStates == {"absent", "present", "unreadable"}

NoSidecar == [d \in DirsOnDisk |-> "absent"]

\* the hosts the program runs on (lines 334-336 tell them apart)
Platforms == {"posix", "win32"}

NoResponse == [status |-> 0, body |-> <<>>]

InitWith(disks, sidecars, platforms) ==
  /\ fs \in disks
  /\ db = <<>>
  /\ namesTxt \in sidecars
  /\ op = "init"
  /\ request = <<>>
  /\ response = NoResponse
  /\ log = <<>>
  /\ served = 0
  /\ platform \in platforms

RequestDirs == DirsOnDisk \cup {DirGone}

\* the environments of one scan: at most MaxFaults files meet a fault
Envs(files, fileEnvs) ==
  {e \in [files -> fileEnvs] : Cardinality({p \in files : e[p] # Nominal}) <= MaxFaults}

ScanWith(dirs, fileEnvs) ==
  /\ \E directory_path \in dirs :
       \E order \in WalkOrders(fs, directory_path) :
         \E env \in Envs(files_to_scan(fs, directory_path), fileEnvs) :
           ProcessFiles(directory_path, order, env)
  /\ UNCHANGED served

Item(original_path, proposed_new_name, status) ==
  [original_path |-> original_path, proposed_new_name |-> proposed_new_name,
   status |-> status]

Batches(items, longest) == UNION {[1..n -> items] : n \in 1..longest}

ClearDirectory ==
  /\ \E directory_path \in RequestDirs : ClearDirectoryCache(directory_path)
  /\ UNCHANGED served

ClearAll == ClearDatabase /\ UNCHANGED served

(***************************************************************************)
(* Spec: the four endpoints in any order, over a copy of one file in two   *)
(* directories or two different files; a rename request names one file.    *)
(* The directories /a and /A are two directories: a POSIX host.            *)
(***************************************************************************)
\* the bytes of a file, as a number
Contents == {1, 2}

Init ==
  InitWith({(PathAX :> File(1, TRUE)) @@ (PathUX :> File(d, TRUE)) : d \in Contents},
           {NoSidecar}, {"posix"})

\* the classifier answers or times out
ScanEnvs == {Nominal, [Nominal EXCEPT !.reply = "timeout"]}

Scan == ScanWith(RequestDirs, ScanEnvs)

Statuses == {"accepted", "marked_for_deletion"}

Rename ==
  /\ \E p \in DOMAIN fs : \E status \in Statuses :
       SaveAllChanges(<<Item(p, NameNew, status)>>)
  /\ UNCHANGED served

Next == Scan \/ Rename \/ ClearDirectory \/ ClearAll

Spec == Init /\ [][Next]_vars

(***************************************************************************)
(* SpecScan: scans of one directory of two files under every fault of the  *)
(* environment; the files do not change.                                   *)
(***************************************************************************)
\* the second file of /a: a copy of x.txt, another content, or unreadable
SecondFiles == {File(1, TRUE), File(2, TRUE), File(2, FALSE)}

InitScan ==
  InitWith({(PathAX :> File(1, TRUE)) @@ (PathAY :> f) : f \in SecondFiles},
           {[NoSidecar EXCEPT ![DirLower] = n] : n \in SidecarStates}, {"posix"})

ScanDirs == {DirLower, DirWild, DirGone}

ScanFaulty == ScanWith(ScanDirs, FileEnvs)

NextScan == ScanFaulty \/ ClearAll

SpecScan == InitScan /\ [][NextScan]_vars

(***************************************************************************)
(* SpecRename: rename requests of several items over two files of one      *)
(* directory, scanned with a working classifier.                           *)
(***************************************************************************)
InitRename ==
  InitWith({(PathAX :> File(1, TRUE)) @@ (PathAY :> f) : f \in SecondFiles},
           {NoSidecar}, Platforms)

OnlyLower == {DirLower}
OnlyNominal == {Nominal}

ScanNominal == ScanWith(OnlyLower, OnlyNominal)

RenameItems ==
  { Item(PathAX, NameNew, "accepted"), Item(PathAY, NameNew, "accepted"),
    Item(PathAX, NameNew, "marked_for_deletion"),
    Item(PathAY, <<>>, "marked_for_deletion"),
    Item(PathAY, BadName, "accepted"),
    Item(MissingPath, NameNew, "accepted") }

RenameBatch ==
  /\ served < MaxRenameRequests
  /\ \E renames \in Batches(RenameItems, MaxBatch) : SaveAllChanges(renames)
  /\ served' = served + 1

NextRename == ScanNominal \/ RenameBatch \/ ClearAll

SpecRename == InitRename /\ [][NextRename]_vars

(***************************************************************************)
(* SpecName: scans of a directory of two files, the first a plain-text     *)
(* file with a lower-case or an upper-case extension or a PDF, under       *)
(* answers that differ in topic, date, setting and subject.                *)
(***************************************************************************)
NameUpper == <<"x",".","T","X","T">>
NamePdf == <<"x",".","p","d","f">>
FirstNames == {NameX, NameUpper, NamePdf}

InitName ==
  InitWith({(join(DirLower, n) :> File(1, TRUE)) @@ (PathAY :> File(2, TRUE)) :
              n \in FirstNames},
           {NoSidecar}, {"posix"})

NameEnvs == {[Nominal EXCEPT !.reply = r] : r \in NameReplyKinds} \cup OnlyNominal

ScanNames == ScanWith(OnlyLower, NameEnvs)

NextName == ScanNames \/ ClearAll

SpecName == InitName /\ [][NextName]_vars

(***************************************************************************)
(* SpecDirs: the four endpoints over one file in each of the directories   *)
(* /a and /_ (a copy or another content); a rename request names one file  *)
(* and gives a plain name or an absolute path as the new name.             *)
(***************************************************************************)
PathWX == join(DirWild, NameX)

\* a new name that is an absolute path into another directory
NameAbs == join(DirWild, <<"n",".","t","x","t">>)

NewNames == {NameNew, NameAbs}

InitDirs ==
  InitWith({(PathAX :> File(1, TRUE)) @@ (PathWX :> File(d, TRUE)) : d \in Contents},
           {NoSidecar}, {"posix"})

TwoDirs == {DirLower, DirWild}

ScanTwoDirs == ScanWith(TwoDirs, ScanEnvs)

RenameMoving ==
  /\ \E p \in DOMAIN fs : \E new_name \in NewNames :
       SaveAllChanges(<<Item(p, new_name, "accepted")>>)
  /\ UNCHANGED served

NextDirs == ScanTwoDirs \/ RenameMoving \/ ClearDirectory \/ ClearAll

SpecDirs == InitDirs /\ [][NextDirs]_vars

(***************************************************************************)
(* The claims.                                                             *)
(***************************************************************************)
\* the supported files below a directory whose hash has a row
AllRecorded(directory_path) ==
  \A p \in files_to_scan(fs, directory_path) :
    HashKnown(db, calculate_file_hash(fs, p))

\* C1, as stated: when process_files runs twice in a row on a directory
\* (both runs return, the files are the same), the second run returns an
\* empty proposal list.
C1_SecondScanEmpty ==
  [][(/\ op = "process_files" /\ response.status = 200
      /\ op' = "process_files" /\ response'.status = 200
      /\ request' = request)
       => response'.body = <<>>]_vars

\* C1, amended: the second of two scans in a row of a directory proposes no
\* file whose hash had a row after the first, and when the first left a row
\* for every supported file it returns the empty list.
C1_RescanProposesOnlyUnrecorded ==
  [][(op = "process_files" /\ op' = "process_files" /\ request' = request)
       => /\ \A i \in 1..Len(response'.body) :
               ~HashKnown(db, calculate_file_hash(fs, response'.body[i].originalPath))
          /\ AllRecorded(request.directory_path)
               => response' = NoProposals]_vars

\* a scan of two files that found both already recorded (by the scan before
\* it: nothing else adds rows) and returned the empty list
C1_Witness ==
  /\ op = "process_files"
  /\ response = NoProposals
  /\ Len(log) = 2
  /\ \A i \in 1..Len(log) : log[i].outcome = "known"

\* C2: the catalog never holds two rows with one file_hash, and no handler
\* ever attempts the insert of a hash already present (the UNIQUE column
\* never has to reject one).
C2_OneRowPerHash ==
  /\ \A i, j \in 1..Len(db) : i # j => db[i].file_hash # db[j].file_hash
  /\ \A i \in 1..Len(log) : log[i].outcome # "integrity_error"

\* two files on disk with the same bytes, one row for them, and a scan that
\* has just skipped one of them at the dedup check
C2_Witness ==
  /\ op = "process_files"
  /\ \E p, q \in DOMAIN fs : p # q /\ fs[p].data = fs[q].data
  /\ Len(db) = 1
  /\ \E i \in 1..Len(log) :
       log[i].outcome = "known" /\ db[1].file_hash = calculate_file_hash(fs, log[i].path)

\* the answers C3 lists as classification failures
C3_FailureReplies == ReplyRaises \cup {"missing_key"}

\* C3, as stated: a file whose classifier outcome is a network error, a
\* timeout, a non-2xx status, a non-JSON body or a JSON body lacking a
\* required key gets no row and no proposal.
C3_FailureWritesNothing ==
  op = "process_files" =>
    \A i \in 1..Len(log) :
      log[i].reply \in C3_FailureReplies
        => /\ log[i].outcome = "llm_failed"
           /\ \A k \in 1..Len(db) : db[k].original_path # log[i].path
           /\ \A k \in 1..Len(response.body) : response.body[k].originalPath # log[i].path

\* C10, as stated: whatever fails for one file of a scan, the scan handles
\* every supported file of the directory and returns its proposal list.
C10_ScanIsolatesFailures ==
  (op = "process_files" /\ IsDir(request.directory_path)) =>
    /\ response.status = 200
    /\ Len(log) = Cardinality(files_to_scan(fs, request.directory_path))

\* the outcomes of an item that add a failure entry
FailedOutcomes == {"missing", "error"}

\* the items of a request that carry an original_path and a proposed_new_name
Complete(renames) ==
  {i \in 1..Len(renames) :
     renames[i].original_path # <<>> /\ renames[i].proposed_new_name # <<>>}

Copies(disk, f) == Cardinality({p \in DOMAIN disk : disk[p] = f})

\* C5, as stated: save_all_changes leaves the multiset of file contents on
\* disk as it was; an item whose target path is occupied by another file
\* overwrites and removes nothing.
C5_NoFileDestroyed ==
  [][op' = "save_all_changes" =>
       \A f \in {fs[p] : p \in DOMAIN fs} \cup {fs'[p] : p \in DOMAIN fs'} :
         Copies(fs', f) = Copies(fs, f)]_vars

\* the last item of the batch that has just been applied
LastItem == log[Len(log)]

\* the hash the file of an item had before the item's turn
HashBefore(e) == calculate_file_hash(e.item.original_path :> e.before, e.item.original_path)

\* C6, as stated: right after an item counted in successful_renames is
\* applied, the catalog has a record with the hash the file had before the
\* move, the applied name and the new path.
C6_RenamedHasRecord ==
  (op = "save_all_changes" /\ log # <<>> /\ LastItem.outcome = "renamed") =>
    \E k \in 1..Len(db) :
      /\ db[k].file_hash = HashBefore(LastItem)
      /\ db[k].new_name = target_name(LastItem.item)
      /\ db[k].file_path = LastItem.new_path

\* C6, amended: right after an item counted in successful_renames is
\* applied, the hash computed at the new path is the hash the file had
\* before the move, and when the catalog has a record with that hash, that
\* record carries the applied name and the new path; when it has none (the
\* file was never recorded, its record was cleared, or it cannot be read)
\* the item is counted all the same.
C6_RecordFollowsRename ==
  (op = "save_all_changes" /\ log # <<>> /\ LastItem.outcome = "renamed") =>
    /\ LastItem.new_path \in DOMAIN fs
    /\ calculate_file_hash(fs, LastItem.new_path) = HashBefore(LastItem)
    /\ \A k \in 1..Len(db) :
         db[k].file_hash = HashBefore(LastItem)
           => /\ db[k].new_name = target_name(LastItem.item)
              /\ db[k].file_path = LastItem.new_path

\* a recorded file has just been renamed
C6_Witness ==
  /\ op = "save_all_changes"
  /\ log # <<>>
  /\ LastItem.outcome = "renamed"
  /\ HashKnown(db, HashBefore(LastItem))
  /\ LastItem.new_path # LastItem.item.original_path

\* C9, as stated: an item marked_for_deletion whose source exists ends up at
\* DELETE_<basename> in the directory of its original path, whatever its
\* proposed_new_name, with its content unchanged.
C9_MarkedEndsUpPrefixed ==
  (/\ op = "save_all_changes" /\ log # <<>>
   /\ LastItem.item.status = "marked_for_deletion" /\ LastItem.existed) =>
    LET original_path == LastItem.item.original_path
        kept == join(dirname(original_path), DeletePrefix \o basename(original_path))
    IN  /\ kept \in DOMAIN fs
        /\ fs[kept] = LastItem.before

\* C7, as stated: clear_directory_cache for a directory deletes exactly the
\* rows whose original_path starts, character for character, with the
\* directory followed by the path separator, and leaves the other rows as
\* they were.
C7_DeletesExactlyPrefix ==
  [][(op' = "clear_directory_cache" /\ response'.status = 200) =>
       LET prefix == join(request'.directory_path, <<>>)
       IN  db' = SelectSeq(db, LAMBDA r : ~StartsWith(r.original_path, prefix))]_vars

\* the outcomes of a file whose hash has a row once its turn is over
RecordedOutcomes == {"proposed", "known"}

\* the files of a scan's log that are readable and hold the same bytes
SameBytes(p, q) ==
  /\ p \in DOMAIN fs /\ q \in DOMAIN fs
  /\ fs[p].readable /\ fs[q].readable
  /\ fs[p].data = fs[q].data

\* C8, as stated: of the files with the same bytes that a scan meets, every
\* one after the first is skipped without a classifier call.
C8_LaterCopiesSkipped ==
  op = "process_files" =>
    \A i, j \in 1..Len(log) :
      (i < j /\ SameBytes(log[i].path, log[j].path))
        => (log[j].outcome = "known" /\ log[j].reply = "-")

\* C8, amended: files with the same bytes have the same fingerprint; a scan
\* calls the classifier for a file, and proposes it, only when no row has its
\* fingerprint, whatever path the row was recorded at: once a copy is
\* recorded (in this scan or before it) every other copy is skipped without
\* a classifier call, and a file moved by save_all_changes whose row is still
\* in the catalog yields no proposal.  A copy met after one whose
\* classification failed is classified.
C8_RecordedCopiesSkipped ==
  [][op' = "process_files" =>
       /\ \A p, q \in DOMAIN fs :
            SameBytes(p, q) => calculate_file_hash(fs, p) = calculate_file_hash(fs, q)
       /\ \A j \in 1..Len(log') :
            HashKnown(db, calculate_file_hash(fs, log'[j].path))
              => (log'[j].outcome = "known" /\ log'[j].reply = "-")
       /\ \A i, j \in 1..Len(log') :
            (i < j /\ SameBytes(log'[i].path, log'[j].path)
               /\ log'[i].outcome \in RecordedOutcomes)
              => (log'[j].outcome = "known" /\ log'[j].reply = "-")
       /\ \A k \in 1..Len(response'.body) :
            ~HashKnown(db, calculate_file_hash(fs, response'.body[k].originalPath))]_vars

\* a scan that met two copies of a recorded file, one of them at the path a
\* rename had moved it to, and skipped both without a classifier call
C8_Witness ==
  /\ op = "process_files"
  /\ Len(log) = 2
  /\ log[1].path # log[2].path
  /\ SameBytes(log[1].path, log[2].path)
  /\ \A i \in 1..2 : log[i].outcome = "known" /\ log[i].reply = "-"
  /\ \E i \in 1..2 : \E k \in 1..Len(db) :
       db[k].file_path = log[i].path /\ db[k].original_path # log[i].path

\* the name C11 states for a file and the answer of the classifier: the
\* file is a plain-text file when get_file_content reads it as one
C11_Name(llm_analysis, file_path) ==
  LET file_ext == splitext(file_path)
      parts == name_parts(llm_analysis)
  IN  IF Lower(file_ext) = ExtTxt /\ Len(parts) > 1
        THEN JoinWith(<<"-">>, [i \in 1..Len(parts) |-> sanitize_filename(parts[i].s)])
               \o file_ext
        ELSE sanitize_filename(Get(llm_analysis, "topic", DefaultTopic).s) \o file_ext

\* C11, as stated: the proposed name of a plain-text file with at least two
\* of date, setting, subject present and not "N/A" is the hyphen-join of the
\* sanitized parts in that order plus the extension; with fewer parts, and
\* for every other kind of file, it is the sanitized topic plus the extension.
C11_StructuredNameForPlainText ==
  op = "process_files" =>
    \A k \in 1..Len(response.body) :
      \E i \in 1..Len(log) :
        /\ log[i].path = response.body[k].originalPath
        /\ response.body[k].proposedName
             = C11_Name(get_llm_analysis(log[i].reply), log[i].path)

\* C12, as stated: every proposed name process_files returns is at most 100
\* characters long, the extension included.
C12_NameWithinLimit ==
  op = "process_files" =>
    \A k \in 1..Len(response.body) : Len(response.body[k].proposedName) <= NameLimit

(***************************************************************************)
(* C13: the life of a record.                                              *)
(***************************************************************************)
ScanOrSave == {"process_files", "save_all_changes"}
ClearOps == {"clear_directory_cache", "clear_database"}

\* the fields of a record that are set at creation
SameCreation(r, q) ==
  /\ q.file_hash = r.file_hash
  /\ q.original_name = r.original_name
  /\ q.original_path = r.original_path
  /\ q.topic = r.topic
  /\ q.summary = r.summary
  /\ q.speakers = r.speakers
  /\ q.file_type = r.file_type
  /\ q.metadata = r.metadata

\* the step applied a rename of a file that had the hash h
RenameApplied(h) ==
  /\ op' = "save_all_changes"
  /\ \E k \in 1..Len(log') : log'[k].outcome = "renamed" /\ HashBefore(log'[k]) = h

\* the step keeps every record, changes new_name and file_path only of
\* the records of renamed files, and inserts records without them
C13_RecordsKept ==
  /\ Len(db') >= Len(db)
  /\ \A i \in 1..Len(db) :
        /\ SameCreation(db[i], db'[i])
        /\ (db'[i].new_name # db[i].new_name \/ db'[i].file_path # db[i].file_path)
             => RenameApplied(db[i].file_hash)
  /\ \A i \in (Len(db) + 1)..Len(db') :
        db'[i].new_name = NULL /\ db'[i].file_path = NULL

\* C13: process_files and save_all_changes keep every record and the
\* fields it was created with; a record inserted by the step has new_name
\* and file_path null; new_name and file_path of a record change only in a
\* step that applied a rename of a file with the record's hash; a record
\* disappears only in a step of clear_directory_cache or clear_database.
C13_RecordLifecycle ==
  [][/\ (op' \in ScanOrSave) => C13_RecordsKept
     /\ (\E i \in 1..Len(db) : ~HashKnown(db', db[i].file_hash)) => (op' \in ClearOps)
    ]_vars

\* a record has taken the name and the path of an applied rename
C13_Witness ==
  /\ op = "save_all_changes"
  /\ \E i \in 1..Len(db) :
        /\ db[i].new_name # NULL
        /\ db[i].file_path # db[i].original_path
        /\ db[i].file_path \in DOMAIN fs

(***************************************************************************)
(* C14: the metadata tool is missing or fails.                             *)
(***************************************************************************)
ToolDown == {"not_installed", "fails"}
Sentinels == {ToolNotFound, ToolFailed}

\* the record process_files inserted for the file of a log entry
RecordOf(e) == {i \in 1..Len(db) : db[i].original_path = e.path}

C15_Failed(e) == e.outcome = "hash_failed" \/ e.reply \in C3_FailureReplies

\* the next scan takes the file of e up again: it hashes it, and sends it
\* to the classifier unless it cannot be hashed or a record has its hash
C15_Retried(e) ==
  \E j \in 1..Len(log') :
    /\ log'[j].path = e.path
    /\ log'[j].outcome # "not_a_file"
    /\ (~HashFailed(calculate_file_hash(fs, e.path))
          /\ ~HashKnown(db, calculate_file_hash(fs, e.path)))
         => log'[j].reply # "-"

\* C15, as stated: when a scan of a directory is followed by another scan
\* of it, every file whose hashing or classification failed in the first
\* has no record after it and is hashed and sent to the classifier again by
\* the second; the second sends no file to the classifier whose hash
\* already has a record.
C15_FailedFilesRetried ==
  [][(/\ op = "process_files" /\ op' = "process_files" /\ request' = request
      /\ IsDir(request.directory_path))
       => /\ \A k \in 1..Len(log) :
               C15_Failed(log[k])
                 => /\ \A i \in 1..Len(db) : db[i].original_path # log[k].path
                    /\ C15_Retried(log[k])
          /\ \A j \in 1..Len(log') :
               HashKnown(db, calculate_file_hash(fs, log'[j].path))
                 => log'[j].outcome = "known"]_vars

(***************************************************************************)
(* C16: proposals and inserted records.                                    *)
(***************************************************************************)
\* the paths of the records a step inserted, in the order of insertion
C16_Inserted == [i \in 1..(Len(db') - Len(db)) |-> db'[Len(db) + i].original_path]

\* the paths of the proposals a step returned, in the order of the list
C16_Proposed == [i \in 1..Len(response'.body) |-> response'.body[i].originalPath]

\* C16, as stated: in every run of process_files the proposals returned
\* are the files for which the run inserted a record, in scan order: every
\* proposal has its record and every inserted record has its proposal.
C16_ProposalsMatchInserts ==
  [][op' = "process_files" => C16_Proposed = C16_Inserted]_vars

(***************************************************************************)
(* C18: the catalog and the files.                                         *)
(***************************************************************************)
\* C18, as stated: after any sequence of scans and rename requests, every
\* record whose file_path is not null names a path where a file exists
\* whose content hash is the record's file_hash.
C18_RecordsPointAtFiles ==
  \A i \in 1..Len(db) :
    db[i].file_path # NULL =>
      /\ db[i].file_path \in DOMAIN fs
      /\ calculate_file_hash(fs, db[i].file_path) = db[i].file_hash

(***************************************************************************)
(* C17: a scan that follows the clearing of its directory.                 *)
(***************************************************************************)
WorkingReplies == {"ok", "-"}

\* the step is a scan of the directory that has just been cleared, and the
\* classifier answers well for every file the scan sends it
C17_ClearThenScan ==
  /\ op = "clear_directory_cache" /\ response.status = 200
  /\ op' = "process_files"
  /\ request'.directory_path = request.directory_path
  /\ \A j \in 1..Len(log') : log'[j].reply \in WorkingReplies

\* the scan of the step returned a proposal for the content of the file p
C17_Proposed(p) ==
  \E i \in 1..Len(response'.body) : SameBytes(response'.body[i].originalPath, p)

\* the readable supported files under the directory of the request
C17_Files ==
  {p \in files_to_scan(fs, request.directory_path) :
     ~HashFailed(calculate_file_hash(fs, p))}

\* C17, as stated: the scan of a directory that follows its clearing
\* returns, with a working classifier, a proposal for every distinct
\* content among the supported files under it, whether the file was
\* renamed since its first scan or its content also lies in another
\* directory.
C17_ClearedDirectoryProposedAgain ==
  [][C17_ClearThenScan => \A p \in C17_Files : C17_Proposed(p)]_vars

\* C17, amended: after the clearing of a directory no record has an
\* original_path under it, and the scan of it that follows returns, with a
\* working classifier, a proposal for every distinct content among the
\* readable supported files under it whose hash has no record left (a
\* file recorded under the directory is among them even when it was
\* renamed since), and none for a content that still has a record, as one
\* first recorded under another directory has.
C17_UnrecordedProposedAgain ==
  [][C17_ClearThenScan =>
       /\ \A k \in 1..Len(db) :
            ~StartsWith(db[k].original_path, join(request.directory_path, <<>>))
       /\ \A p \in C17_Files :
            C17_Proposed(p) <=> ~HashKnown(db, calculate_file_hash(fs, p))]_vars

\* the clearing of /a has removed the record of a file of /a that was
\* renamed after its scan, and a copy of it in /_ is still recorded
C17_Witness ==
  /\ op = "clear_directory_cache" /\ response.status = 200
  /\ request.directory_path = DirLower
  /\ response.body >= 1
  /\ join(DirLower, NameNew) \in DOMAIN fs
  /\ ~HashKnown(db, calculate_file_hash(fs, join(DirLower, NameNew)))
  /\ \E k \in 1..Len(db) : db[k].original_path = PathWX

(***************************************************************************)
(* C19: where a rename puts the file.                                      *)
(***************************************************************************)
\* C19, as stated: every item that save_all_changes applies leaves the
\* file in the directory of original_path, whatever the new name is.
C19_RenameStaysInDirectory ==
  op = "save_all_changes" =>
    \A k \in 1..Len(log) :
      log[k].outcome = "renamed"
        => dirname(log[k].new_path) = dirname(log[k].item.original_path)

====
